---- MODULE Spec2Model ----
(***************************************************************************)
(* Model of goa2w's visualize pipeline (src/main.go): downmix, RMS         *)
(* normalisation, window/stride derivation, envelope extraction, envelope  *)
(* padding, the per-frame goroutines joined by a sync.WaitGroup, the       *)
(* progress spinner and the final ffmpeg encode.                           *)
(*                                                                         *)
(* Numbers.  Integers of the program are integers here.  Floating point    *)
(* values are kept exactly where the program's arithmetic is exact on the  *)
(* inputs of the model (products and quotients of small integers), and by  *)
(* what decides the program's control flow and the properties checked      *)
(* otherwise:                                                              *)
(*   - a sample is a record [nan, num, den]: NaN, or the rational num/den; *)
(*     after normalisation by a positive RMS the record stands for         *)
(*     (num/den)/std, std > 0 being common to all samples;                 *)
(*   - an envelope entry and a bar height are one of "zero", "pos", "neg", *)
(*     "nan": the compression 1.9*(sigmoid(2.5*v)-0.5) is odd, strictly    *)
(*     increasing and maps 0 to exactly 0, so it keeps that class.         *)
(***************************************************************************)
EXTENDS Integers, Sequences, FiniteSets, TLC

\* ---------------------------------------------------------------- bounds
MaxLen == 2

MaxFrames == 2

MaxBars == 2

\* Input values the model draws from.
Samples == {-1, 0, 1}


SampleRates == {1, 2, 3}

Rates == {1, 2, 3}

\* -t, seconds of audio per frame (whole seconds in the model).
Times == {-1, 0, 2}

\* -oversample as a ratio <<numerator, denominator>>: 1/2, 1, 2, -1.
Oversamples == {<<1, 2>>, <<1, 1>>, <<2, 1>>, <<-1, 1>>}

\* ---------------------------------------------------------------- numbers
Abs(x) == IF x < 0 THEN -x ELSE x

\* Go's int(f) of a float64 quotient a/b: truncation toward zero.
TruncDiv(a, b) ==
  IF (a >= 0) = (b > 0) THEN Abs(a) \div Abs(b) ELSE -(Abs(a) \div Abs(b))

\* Nearest integer of a/b, b > 0, a >= 0 (halves round up).
RoundDiv(a, b) == (2 * a + b) \div (2 * b)

NaN == [nan |-> TRUE, num |-> 0, den |-> 1]

Num(a, b) == [nan |-> FALSE, num |-> a, den |-> b]

IsZero(v) == ~v.nan /\ v.num = 0

RECURSIVE SumSeq(_)
SumSeq(s) == IF s = <<>> THEN 0 ELSE Head(s) + SumSeq(Tail(s))

\* A zero-valued slice of the given length (Go's make).
Zeros(k, z) == [i \in 1..k |-> z]

\* ---------------------------------------------------------------- state
VARIABLES
  wav,        \* [][]float32 read by readAudio: channels of samples
  sr,         \* sample rate
  rate,       \* -r
  bars,       \* -b
  time,       \* -t
  oversample, \* -oversample
  mono,       \* the mono signal
  std,        \* the RMS: "unset", "nan", "zero" or "pos"
  window,
  stride,
  env,        \* the envelope, then the padded envelope
  frames,
  pcMain,     \* position of visualize
  status,     \* "running", "completed", "fatal", "panic", "diverged"
  loaders,    \* startLoader goroutines spinning on visualize's stopChan
  mainLoaders,\* startLoader goroutines spinning on main's stopChan
  clearing,   \* startLoader goroutines that have received and not yet returned
  chanCap,    \* cap(frameChan)
  frameChan,  \* buffered contents of frameChan
  wg,         \* the WaitGroup counter
  launched,   \* the indices the loop has started a goroutine for, in order
  task,       \* position of each started frame goroutine
  denv,       \* each frame goroutine's bar vector
  slot,       \* the frame image files: "created", "valid" or "partial"
  divByZero,  \* float divisions evaluated with a zero denominator
  encodeRan   \* the ffmpeg encode command has been run

vars == <<wav, sr, rate, bars, time, oversample, mono, std, window, stride,
          env, frames, pcMain, status, loaders, chanCap, frameChan, wg,
          launched, task, denv, slot, divByZero, encodeRan, mainLoaders,
          clearing>>

spinVars == <<mainLoaders, clearing>>

inputs == <<wav, sr, rate, bars, time, oversample>>

prepVars == <<mono, std, window, stride, env, frames, divByZero>>

poolVars == <<chanCap, frameChan, wg, launched, task, denv, slot>>

\* No goroutine started, no file written: the function with empty domain.
NoTasks == [i \in {} |-> "none"]

\* ---------------------------------------------------------------- inputs
\* What readAudio returns, channels >= 1 slices of the same length: a mono
\* signal, or a stereo one whose right channel repeats the left or is its
\* inverse (which cancels in the downmix).
Signals == UNION {[1..n -> Samples] : n \in 0..MaxLen}

Inverted(x) == [i \in 1..Len(x) |-> -x[i]]

Wavs ==
  {<<x>> : x \in Signals} \cup {<<x, x>> : x \in Signals}
    \cup {<<x, Inverted(x)>> : x \in Signals}

NumSamples == Len(wav[1])

\* Mutant: the frame count rounded to nearest.
FrameCountRounded(n, r, s) == RoundDiv(r * n, s)

\* frames as visualize computes it: int(float64(rate) * (len(mono)/sr)).
FrameCount(n, r, s) == TruncDiv(r * n, s)

\* The inputs of a run and the initial values, with the program at pc.
InitAt(pc) ==
  /\ wav \in Wavs
  /\ sr \in SampleRates
  /\ rate \in Rates
  /\ bars \in 1..MaxBars
  /\ time \in Times
  /\ oversample \in Oversamples
  /\ FrameCount(Len(wav[1]), rate, sr) <= MaxFrames
  /\ mono = <<>>
  /\ std = "unset"
  /\ window = 0
  /\ stride = 0
  /\ env = <<>>
  /\ frames = 0
  /\ pcMain = pc
  /\ status = "running"
  /\ loaders = 0
  /\ mainLoaders = 0
  /\ clearing = 0
  /\ chanCap = 0
  /\ frameChan = <<>>
  /\ wg = 0
  /\ launched = <<>>
  /\ task = NoTasks
  /\ denv = NoTasks
  /\ slot = NoTasks
  /\ divByZero = {}
  /\ encodeRan = FALSE

\* visualize is entered, the audio read.
Init == InitAt("downmix")

Running == status = "running"

\* ------------------------------------------------------- signal preprocessor
\* mono[i] = sum over channels / float32(len(wav)); the record holds the sum,
\* in units of 1/len(wav).
DownmixSample(w, i) == Num(SumSeq([c \in 1..Len(w) |-> w[c][i]]), 1)

Downmix ==
  /\ Running /\ pcMain = "downmix"
  /\ mono' = [i \in 1..NumSamples |-> DownmixSample(wav, i)]
  /\ pcMain' = "normalize"
  /\ UNCHANGED <<spinVars, inputs, std, window, stride, env, frames, divByZero, status,
                 loaders, poolVars, encodeRan>>

\* std = sqrt(sum(v*v) / float32(len(mono))): 0/0 is NaN for an empty signal,
\* 0 when every sample is 0, positive otherwise.
Rms(m) ==
  IF Len(m) = 0 THEN "nan"
  ELSE IF SumSeq([i \in 1..Len(m) |-> m[i].num * m[i].num]) = 0 THEN "zero"
  ELSE "pos"

\* mono[i] /= std.  With std = 0 every sample is 0 and the quotient is 0/0;
\* with std > 0 the record keeps its numerator, now in units of 1/std.
NormalizeSample(v, s) == IF s = "pos" THEN v ELSE NaN

Normalize ==
  /\ Running /\ pcMain = "normalize"
  /\ std' = Rms(mono)
  /\ mono' = [i \in 1..Len(mono) |-> NormalizeSample(mono[i], std')]
  /\ divByZero' = divByZero
       \cup (IF Len(mono) = 0 THEN {"rms"} ELSE {})
       \cup (IF Len(mono) > 0 /\ std' = "zero" THEN {"normalize"} ELSE {})
  /\ pcMain' = "config"
  /\ UNCHANGED <<spinVars, inputs, window, stride, env, frames, status, loaders,
                 poolVars, encodeRan>>

\* window := int(sr * time / float64(bars))
WindowOf(s, t, b) == TruncDiv(s * t, b)

\* stride := int(float64(window) / oversample)
StrideOf(w, o) == TruncDiv(w * o[2], o[1])

Config ==
  /\ Running /\ pcMain = "config"
  /\ window' = WindowOf(sr, time, bars)
  /\ stride' = StrideOf(window', oversample)
  /\ pcMain' = "envelope"
  /\ UNCHANGED <<spinVars, inputs, mono, std, env, frames, divByZero, status, loaders,
                 poolVars, encodeRan>>

\* ------------------------------------------------------- envelope extractor
\* v > 0 on a float32: false for NaN.
Positive(v) == ~v.nan /\ v.num > 0

\* The mean of the positive samples of a frame, 0 when there is none.
FrameMean(frame) ==
  LET pos == {i \in 1..Len(frame) : Positive(frame[i])}
      sum == SumSeq([i \in 1..Len(frame) |->
                       IF Positive(frame[i]) THEN frame[i].num ELSE 0])
  IN IF Cardinality(pos) > 0 THEN Num(sum, Cardinality(pos)) ELSE Num(0, 1)

\* 1.9 * (sigmoid(2.5*v) - 0.5), by the class of its value.
Compress(v) ==
  IF v.nan THEN "nan"
  ELSE IF v.num = 0 THEN "zero"
  ELSE IF (v.num > 0) = (v.den > 0) THEN "pos" ELSE "neg"

\* Mutant: the loop bound taken inclusive.
EnvelopeLoopCondInclusive(off, padLen, win) == off <= padLen - win

\* for off := 0; off < len(padded)-window; off += stride
EnvelopeLoopCond(off, padLen, win) == off < padLen - win

\* The loop of envelope from offset off on.  A slice out of range panics; a
\* stride of 0 never advances and appends until memory runs out.
RECURSIVE EnvelopeLoop(_, _, _, _, _)
EnvelopeLoop(padded, win, str, off, out) ==
  IF ~EnvelopeLoopCond(off, Len(padded), win)
  THEN [outcome |-> "ok", out |-> out]
  ELSE IF off < 0 \/ off + win > Len(padded)
  THEN [outcome |-> "panic", out |-> out]
  ELSE IF str = 0
  THEN [outcome |-> "diverged", out |-> out]
  ELSE EnvelopeLoop(padded, win, str, off + str,
                    Append(out, FrameMean(SubSeq(padded, off + 1, off + win))))

\* envelope(wav, window, stride).  make with a negative length panics, and so
\* does every later slice when window < 0.
envelope(w, win, str) ==
  IF win < 0 THEN [outcome |-> "panic", out |-> <<>>]
  ELSE
    LET half == win \div 2
        padded == Zeros(half, Num(0, 1)) \o w \o Zeros(win - half, Num(0, 1))
        r == EnvelopeLoop(padded, win, str, 0, <<>>)
    IN [outcome |-> r.outcome,
        out |-> [i \in 1..Len(r.out) |-> Compress(r.out[i])]]

Envelope ==
  /\ Running /\ pcMain = "envelope"
  /\ LET r == envelope(mono, window, stride)
     IN IF r.outcome = "ok"
        THEN /\ env' = r.out
             /\ pcMain' = "pad"
             /\ status' = status
        ELSE /\ status' = r.outcome
             /\ UNCHANGED <<env, pcMain>>
  /\ UNCHANGED <<spinVars, inputs, mono, std, window, stride, frames, divByZero, loaders,
                 poolVars, encodeRan>>

\* Mutant: a tail pad of one bar group instead of three.
PadEnvelopeShort(e, b) ==
  Zeros(b \div 2, "zero") \o e \o Zeros(b - b \div 2, "zero")

\* padded := make([]float64, len(env)+3*bars); copy(padded[bars/2:], env)
PadEnvelope(e, b) ==
  Zeros(b \div 2, "zero") \o e \o Zeros(3 * b - b \div 2, "zero")

FramesAndPad ==
  /\ Running /\ pcMain = "pad"
  /\ frames' = FrameCount(Len(mono), rate, sr)
  /\ env' = PadEnvelope(env, bars)
  /\ pcMain' = "loader"
  /\ UNCHANGED <<spinVars, inputs, mono, std, window, stride, divByZero, status, loaders,
                 poolVars, encodeRan>>

\* ------------------------------------------------------- spinner
\* startLoader loops over a select: with a sender waiting on stopChan it takes
\* the receive, clears the line and returns; otherwise it prints the next
\* spinner character and sleeps, which changes nothing the program reads.
\* Mutant: the receive leaves the select only, and the loop goes on.
LoaderKeepsSpinning(n) == n

\* The goroutines still spinning on a channel after one of n has received.
LoaderReceives(n) == n - 1

\* fmt.Printf("\r%-80s\r", ""); return
LoaderReturn ==
  /\ Running
  /\ clearing >= 1
  /\ clearing' = clearing - 1
  /\ UNCHANGED <<mainLoaders, inputs, prepVars, pcMain, status, loaders,
                 poolVars, encodeRan>>

\* Mutant: an unbuffered frame channel.
FrameChanUnbuffered(f) == 0

\* frameChan := make(chan int, frames): the capacity of the frame channel.
FrameChanCap(f) == f

\* stopChan := make(chan bool); go startLoader(stopChan, ...); the frame
\* channel and the WaitGroup are created next.
StartLoader ==
  /\ Running /\ pcMain = "loader"
  /\ loaders' = loaders + 1
  /\ chanCap' = FrameChanCap(frames)
  /\ pcMain' = "spawn"
  /\ UNCHANGED <<spinVars, inputs, prepVars, status, frameChan, wg, launched, task, denv,
                 slot, encodeRan>>

\* ------------------------------------------------------- frame scheduler
\* for idx := 0; idx < frames; idx++
SpawnCond(idx, f) == idx < f

\* wg.Add(1); go func(idx int) {...}(idx)
Spawn ==
  /\ Running /\ pcMain = "spawn"
  /\ LET idx == Len(launched)
     IN /\ SpawnCond(idx, frames)
        /\ wg' = wg + 1
        /\ launched' = Append(launched, idx)
        /\ task' = (idx :> "start") @@ task
  /\ UNCHANGED <<spinVars, inputs, prepVars, pcMain, status, loaders, chanCap, frameChan,
                 denv, slot, encodeRan>>

SpawnDone ==
  /\ Running /\ pcMain = "spawn"
  /\ ~SpawnCond(Len(launched), frames)
  /\ pcMain' = "wait"
  /\ UNCHANGED <<spinVars, inputs, prepVars, status, loaders, poolVars, encodeRan>>

\* off := int((float64(idx) / float64(rate) * sr) / float64(stride) / float64(bars))
OffsetOf(idx, r, s, str, b) == TruncDiv(idx * s, r * str * b)

\* env[off*bars : (off+1)*bars] and env[(off+1)*bars : (off+2)*bars] are in
\* range of an envelope of length n.
SliceInBounds(off, b, n) == 0 <= off * b /\ (off + 2) * b <= n

\* (1-w)*a + w*b with 0 < w < 1, by class.
Blend(a, b) ==
  IF a = "nan" \/ b = "nan" THEN "nan"
  ELSE IF a = "zero" THEN b
  ELSE IF b = "zero" THEN a
  ELSE IF a = b THEN a ELSE "mixed"

\* 0.5 * (1 - cos(2*pi*i / float64(len(denv)-1))), by class: 0/0 is NaN when
\* len(denv) = 1; the cosine is 1 at both ends of a longer vector.
Taper(i, n) ==
  IF n - 1 = 0 THEN "nan"
  ELSE IF i = 0 \/ i = n - 1 THEN "zero" ELSE "pos"

\* a * b, by class.
Product(a, b) ==
  IF a = "nan" \/ b = "nan" THEN "nan"
  ELSE IF a = "zero" \/ b = "zero" THEN "zero"
  ELSE IF b = "pos" THEN a ELSE "mixed"

\* Mutant: the blend written in place into the first envelope segment.
BarLoopInPlace(e, off, b) ==
  LET d == [k \in 1..b |->
              Product(Blend(e[off * b + k], e[(off + 1) * b + k]), Taper(k - 1, b))]
  IN [env |-> [i \in 1..Len(e) |->
                 IF i \in (off * b + 1)..(off * b + b) THEN d[i - off * b] ELSE e[i]],
      denv |-> d]

\* What the loop over denv leaves in memory: the goroutine's own denv, and
\* the shared envelope, which it only reads.
BarLoop(e, off, b) ==
  [env |-> e,
   denv |-> [k \in 1..b |->
               Product(Blend(e[off * b + k], e[(off + 1) * b + k]), Taper(k - 1, b))]]

TaskCompute(idx) ==
  /\ Running /\ idx \in DOMAIN task /\ task[idx] = "start"
  /\ LET off == OffsetOf(idx, rate, sr, stride, bars)
     IN IF SliceInBounds(off, bars, Len(env))
        THEN /\ env' = BarLoop(env, off, bars).env
             /\ denv' = (idx :> BarLoop(env, off, bars).denv) @@ denv
             /\ divByZero' = divByZero \cup (IF bars - 1 = 0 THEN {"taper"} ELSE {})
             /\ task' = [task EXCEPT ![idx] = "computed"]
             /\ status' = status
        ELSE /\ status' = "panic"
             /\ UNCHANGED <<env, denv, divByZero, task>>
  /\ UNCHANGED <<spinVars, inputs, mono, std, window, stride, frames, pcMain, loaders,
                 chanCap, frameChan, wg, launched, slot, encodeRan>>

\* drawEnv: f, err := os.Create(outPath); a failure is fatal (os.Exit).
TaskCreate(idx) ==
  /\ Running /\ idx \in DOMAIN task /\ task[idx] = "computed"
  /\ \/ /\ slot' = (idx :> "created") @@ slot
        /\ task' = [task EXCEPT ![idx] = "created"]
        /\ status' = status
     \/ /\ status' = "fatal"
        /\ UNCHANGED <<slot, task>>
  /\ UNCHANGED <<spinVars, inputs, prepVars, pcMain, loaders, chanCap, frameChan, wg,
                 launched, denv, encodeRan>>

\* drawEnv: png.Encode(f, img); its error is discarded, and drawEnv returns.
TaskEncode(idx) ==
  /\ Running /\ idx \in DOMAIN task /\ task[idx] = "created"
  /\ \/ slot' = [slot EXCEPT ![idx] = "valid"]
     \/ slot' = [slot EXCEPT ![idx] = "partial"]
  /\ task' = [task EXCEPT ![idx] = "drawn"]
  /\ UNCHANGED <<spinVars, inputs, prepVars, pcMain, status, loaders, chanCap, frameChan,
                 wg, launched, denv, encodeRan>>

\* frameChan <- idx, which blocks while the buffer is full; then the deferred
\* wg.Done().
TaskSend(idx) ==
  /\ Running /\ idx \in DOMAIN task /\ task[idx] = "drawn"
  /\ Len(frameChan) < chanCap
  /\ frameChan' = Append(frameChan, idx)
  /\ wg' = wg - 1
  /\ task' = [task EXCEPT ![idx] = "done"]
  /\ UNCHANGED <<spinVars, inputs, prepVars, pcMain, status, loaders, chanCap, launched,
                 denv, slot, encodeRan>>

TaskStep(idx) ==
  TaskCompute(idx) \/ TaskCreate(idx) \/ TaskEncode(idx) \/ TaskSend(idx)

\* Mutant: the join does not wait for the counter.
WaitReturnsAtOnce(c) == TRUE

\* wg.Wait() returns once the counter is 0.
WaitReturns(c) == c = 0

Wait ==
  /\ Running /\ pcMain = "wait"
  /\ WaitReturns(wg)
  /\ pcMain' = "stop1"
  /\ UNCHANGED <<spinVars, inputs, prepVars, status, loaders, poolVars, encodeRan>>

\* stopChan <- true: the send completes when a loader receives, and that
\* loader returns.
StopLoader ==
  /\ Running /\ pcMain = "stop1"
  /\ loaders >= 1
  /\ loaders' = LoaderReceives(loaders)
  /\ clearing' = clearing + 1
  /\ pcMain' = "loader2"
  /\ UNCHANGED <<mainLoaders, inputs, prepVars, status, poolVars, encodeRan>>

\* go startLoader(stopChan, "Encoding video with FFmpeg...")
StartLoader2 ==
  /\ Running /\ pcMain = "loader2"
  /\ loaders' = loaders + 1
  /\ pcMain' = "encode"
  /\ UNCHANGED <<spinVars, inputs, prepVars, status, poolVars, encodeRan>>

\* ------------------------------------------------------- encode
\* cmd.Run() of the ffmpeg command over tmpDir/%06d.png: it succeeds or fails.
Encode ==
  /\ Running /\ pcMain = "encode"
  /\ encodeRan' = TRUE
  /\ \/ pcMain' = "stopok"
     \/ pcMain' = "stopfail"
  /\ UNCHANGED <<spinVars, inputs, prepVars, status, loaders, poolVars>>

\* stopChan <- true; fatal("Failed to encode video ...")
EncodeFailed ==
  /\ Running /\ pcMain = "stopfail"
  /\ loaders >= 1
  /\ loaders' = LoaderReceives(loaders)
  /\ clearing' = clearing + 1
  /\ status' = "fatal"
  /\ UNCHANGED <<mainLoaders, inputs, prepVars, pcMain, poolVars, encodeRan>>

\* stopChan <- true after a successful encode
StopLoader2 ==
  /\ Running /\ pcMain = "stopok"
  /\ loaders >= 1
  /\ loaders' = LoaderReceives(loaders)
  /\ clearing' = clearing + 1
  /\ pcMain' = "cleanup"
  /\ UNCHANGED <<mainLoaders, inputs, prepVars, status, poolVars, encodeRan>>

\* Remove tmpDir/*.png and report completion.
Cleanup ==
  /\ Running /\ pcMain = "cleanup"
  /\ slot' = NoTasks
  /\ status' = "completed"
  /\ UNCHANGED <<spinVars, inputs, prepVars, pcMain, loaders, chanCap, frameChan, wg,
                 launched, task, denv, encodeRan>>

MainStep ==
  \/ Downmix \/ Normalize \/ Config \/ Envelope \/ FramesAndPad
  \/ StartLoader \/ Spawn \/ SpawnDone \/ Wait \/ StopLoader \/ StartLoader2
  \/ Encode \/ EncodeFailed \/ StopLoader2 \/ Cleanup

\* The frame goroutines are those of the indices 0 .. frames-1 <= MaxFrames-1.
TaskIds == 0..(MaxFrames - 1)

Next == MainStep \/ LoaderReturn \/ \E idx \in TaskIds : TaskStep(idx)

Spec == Init /\ [][Next]_vars

\* The Go scheduler runs every runnable goroutine: visualize and each frame
\* goroutine keep taking steps while they can.  The scheduling of the frame
\* goroutines depends on the signal through its length only, so the fair
\* specification starts from the silent signals of every length and channel
\* count, with every configuration.
InitSilent ==
  /\ Init
  /\ \A c \in 1..Len(wav) : \A i \in 1..Len(wav[c]) : wav[c][i] = 0

FairSpec ==
  /\ InitSilent /\ [][Next]_vars
  /\ WF_vars(MainStep)
  /\ \A idx \in TaskIds : WF_vars(TaskStep(idx))

\* ------------------------------------------------------- main
\* stopChan := make(chan bool); go startLoader(stopChan, "Verifying audio format")
MainStartLoader ==
  /\ Running /\ pcMain = "mainloader"
  /\ mainLoaders' = mainLoaders + 1
  /\ pcMain' = "verify"
  /\ UNCHANGED <<clearing, inputs, prepVars, status, loaders, poolVars,
                 encodeRan>>

\* verifyAudioFormat(audioFile) returns nil or an error.
VerifyAudioFormat ==
  /\ Running /\ pcMain = "verify"
  /\ \/ pcMain' = "stopverify"
     \/ pcMain' = "stopverifyfail"
  /\ UNCHANGED <<spinVars, inputs, prepVars, status, loaders, poolVars,
                 encodeRan>>

\* stopChan <- true; fatal("Audio format verification failed ...")
VerifyFailed ==
  /\ Running /\ pcMain = "stopverifyfail"
  /\ mainLoaders >= 1
  /\ mainLoaders' = LoaderReceives(mainLoaders)
  /\ clearing' = clearing + 1
  /\ status' = "fatal"
  /\ UNCHANGED <<inputs, prepVars, pcMain, loaders, poolVars, encodeRan>>

\* stopChan <- true after the verification; main goes on to visualize, which
\* reads the audio.
MainStopLoader ==
  /\ Running /\ pcMain = "stopverify"
  /\ mainLoaders >= 1
  /\ mainLoaders' = LoaderReceives(mainLoaders)
  /\ clearing' = clearing + 1
  /\ pcMain' = "downmix"
  /\ UNCHANGED <<inputs, prepVars, status, loaders, poolVars, encodeRan>>

MainPrefixStep ==
  MainStartLoader \/ VerifyAudioFormat \/ VerifyFailed \/ MainStopLoader

\* The whole program from main's first spinner on, on silent mono signals:
\* the spinner handshakes do not depend on the samples or the channels.
InitMain ==
  /\ InitAt("mainloader")
  /\ Len(wav) = 1
  /\ \A c \in 1..Len(wav) : \A i \in 1..Len(wav[c]) : wav[c][i] = 0

MainNext == MainPrefixStep \/ Next

\* main (and visualize, which it calls), every frame goroutine and every
\* spinner goroutine keep taking steps while they can.
MainSpec ==
  /\ InitMain /\ [][MainNext]_vars
  /\ WF_vars(MainPrefixStep \/ MainStep)
  /\ WF_vars(LoaderReturn)
  /\ \A idx \in TaskIds : WF_vars(TaskStep(idx))

\* ======================================================= properties
Prepared == pcMain \notin {"downmix", "normalize", "config"}

\* The envelope has been extracted and padded.
Padded == pcMain \notin {"downmix", "normalize", "config", "envelope", "pad"}

\* The frame loop has ended: visualize is at wg.Wait() or beyond.
PastSpawn == Padded /\ pcMain \notin {"loader", "spawn"}

ValidConfig == window > 0 /\ stride > 0 /\ stride <= window

FrameIndices == 0..(frames - 1)

\* The goroutine of idx has finished and its image file has been written to.
FrameWritten(idx) ==
  /\ idx \in DOMAIN task /\ task[idx] = "done"
  /\ idx \in DOMAIN slot /\ slot[idx] \in {"valid", "partial"}

\* C1: when the ffmpeg encode command has just been run (before the cleanup
\* removes the images), every frame goroutine for an index in [0, frames) has
\* finished and has written the image file of its index.
C1_EncodeAfterAllFrames ==
  (encodeRan /\ pcMain \in {"stopok", "stopfail"})
    => \A idx \in FrameIndices : FrameWritten(idx)

C1_Witness ==
  /\ encodeRan /\ pcMain = "stopok" /\ frames >= 2
  /\ \A idx \in FrameIndices : FrameWritten(idx)

\* C2: with window >= 1 and 1 <= stride <= window, the two slices of every
\* frame index in [0, frames), the last one included, lie inside the padded
\* envelope, and no frame goroutine panics on them.
C2_SlicesInBounds ==
  (Padded /\ ValidConfig)
    => /\ status # "panic"
       /\ Len(env) >= 3 * bars
       /\ \A idx \in FrameIndices :
            SliceInBounds(OffsetOf(idx, rate, sr, stride, bars), bars, Len(env))

C2_Witness ==
  /\ Padded /\ ValidConfig /\ frames >= 2
  /\ NumSamples % stride # 0
  /\ (frames - 1) \in DOMAIN denv

\* C3 (as claimed): once a frame goroutine has failed to write its image, the
\* encode command is never run and the run is never reported as completed.
FrameFailed == \E idx \in DOMAIN slot : slot[idx] = "partial"

C3_FrameFailureAborts ==
  FrameFailed => (~encodeRan /\ status # "completed")

\* C4 (as claimed): an invalid window/stride configuration stops the run at
\* the configuration step: the envelope loop is not entered and no frame
\* goroutine is started.
C4_InvalidConfigRejected ==
  (Prepared /\ ~ValidConfig)
    => /\ pcMain = "envelope"
       /\ status \notin {"panic", "diverged"}
       /\ launched = <<>>

\* C5 (as claimed): for an all-silence input no division by zero is evaluated,
\* the normalised mono signal is all zeros and every envelope value is 0.
AllSilence ==
  /\ NumSamples >= 1
  /\ \A c \in 1..Len(wav) : \A i \in 1..NumSamples : wav[c][i] = 0

C5_SilenceIsGuarded ==
  (AllSilence /\ pcMain \notin {"downmix", "normalize"})
    => /\ divByZero = {}
       /\ \A i \in 1..Len(mono) : IsZero(mono[i])
       /\ \A i \in 1..Len(env) : env[i] = "zero"

\* C6 (as claimed): with window > 0 and 0 < stride <= window, envelope returns
\* floor(n / stride) entries for a signal of n samples.
C6_LengthIsFloor ==
  (pcMain = "pad" /\ ValidConfig) => Len(env) = NumSamples \div stride

\* C6 (amended): with window > 0 and 0 < stride <= window, envelope returns
\* ceil(n / stride) entries, one for each offset 0, stride, 2*stride, ... below
\* n; that is floor(n / stride) only when stride divides n.
C6_LengthIsCeil ==
  (pcMain = "pad" /\ ValidConfig)
    => Len(env) = (NumSamples + stride - 1) \div stride

C6_Witness ==
  /\ pcMain = "pad" /\ ValidConfig
  /\ NumSamples % stride # 0
  /\ Len(env) = NumSamples \div stride + 1

\* C7 (as claimed): the number of frame goroutines started is
\* round(rate * len(mono) / sr).
C7_FramesRounded ==
  PastSpawn => Len(launched) = RoundDiv(rate * NumSamples, sr)

\* C7 (amended): the number of frame goroutines started is rate * len(mono) / sr
\* truncated to an integer (rounded down, never up), and exactly the indices
\* 0 .. frames-1 are started, once each and in order.
C7_FramesTruncated ==
  PastSpawn
    => /\ frames = (rate * NumSamples) \div sr
       /\ launched = [i \in 1..frames |-> i - 1]
       /\ DOMAIN task = FrameIndices

C7_Witness ==
  /\ PastSpawn /\ Len(launched) >= 1
  /\ (2 * ((rate * NumSamples) % sr)) >= sr
  /\ Len(launched) < RoundDiv(rate * NumSamples, sr)

\* C8: while frame goroutines may run (from the frame loop until wg.Wait()
\* returns) no step changes the padded envelope, and a goroutine's bar vector,
\* once computed, is changed by no other step.
EnvelopeKept ==
  /\ env' = env
  /\ \A idx \in DOMAIN denv : denv'[idx] = denv[idx]

C8_EnvelopeReadOnly == [][(pcMain \in {"spawn", "wait"}) => EnvelopeKept]_vars

C8_Witness ==
  /\ pcMain = "stop1" /\ frames >= 2
  /\ \E i \in 1..Len(env) : env[i] = "pos"
  /\ DOMAIN denv = FrameIndices

\* C9 (as claimed): with bars = 1 the taper's division by len(denv)-1 is not
\* evaluated with a zero denominator, and the bar value is a number.
C9_SingleBarGuarded ==
  (bars = 1)
    => /\ "taper" \notin divByZero
       /\ \A idx \in DOMAIN denv : \A k \in 1..Len(denv[idx]) : denv[idx][k] # "nan"

\* C10: a frame goroutine that has drawn its image can always send on
\* frameChan, which holds at most frames values; and once the frame loop has
\* started, wg.Wait() returns unless the process has exited on a failed frame.
SendNeverBlocks ==
  /\ Len(frameChan) <= chanCap
  /\ \A idx \in DOMAIN task : task[idx] = "drawn" => Len(frameChan) < chanCap

C10_FramesFinish ==
  /\ []SendNeverBlocks
  /\ (pcMain = "spawn") ~> (pcMain = "stop1" \/ status = "fatal")

C10_Witness ==
  /\ pcMain = "stop1" /\ frames >= 2
  /\ Len(frameChan) = frames /\ wg = 0

\* C11: the spinner stop handshake.  Whenever the main flow is at one of its
\* sends on stopChan, exactly one startLoader goroutine is spinning on that
\* channel; at most one spinner spins at any time, and none does when a new
\* one is started; and under fair scheduling every such send completes (the
\* spinner receives) and every spinner that has received returns, unless the
\* process exits first.
AtMainSend == Running /\ pcMain \in {"stopverify", "stopverifyfail"}

AtVisualizeSend == Running /\ pcMain \in {"stop1", "stopok", "stopfail"}

OneSpinnerAtSend ==
  /\ AtMainSend => mainLoaders = 1
  /\ AtVisualizeSend => loaders = 1
  /\ mainLoaders + loaders <= 1
  /\ pcMain \in {"mainloader", "loader", "loader2"} => mainLoaders + loaders = 0

C11_StopHandshake ==
  /\ []OneSpinnerAtSend
  /\ (AtMainSend \/ AtVisualizeSend) ~> ~(AtMainSend \/ AtVisualizeSend)
  /\ (clearing > 0) ~> (clearing = 0 \/ ~Running)

\* The second spinner of visualize spins alone while an earlier one, stopped,
\* is still returning.
C11_Witness ==
  /\ Running /\ pcMain = "encode"
  /\ mainLoaders = 0 /\ loaders = 1 /\ clearing >= 1

====
